---------------------------- MODULE Spec2Model ----------------------------
(***************************************************************************)
(* Model of app.py: the fetcher (try_fetch, scrape_site), the insight      *)
(* requester (get_ai_insights) and the batch runner (process_csv).         *)
(*                                                                         *)
(* Strings are sequences of tokens; a token is a fixed piece of text, so   *)
(* that strip(), startswith() and replace() act on them as they act on     *)
(* the characters.  DataFrame cells and JSON values are records tagged by  *)
(* their Python type.  A DataFrame cell assignment df.loc[idx, k] = v is   *)
(* taken to store v in that one cell, whatever the type of v.              *)
(***************************************************************************)
EXTENDS Integers, Sequences, FiniteSets, TLC

VARIABLES
    \* scrape_site
    url,            \* the argument of scrape_site
    attempts,       \* the candidate list built at lines 37-41
    tried,          \* the links handed to try_fetch so far, in order
    resps,          \* what requests.get did for each of them
    ret,            \* the returned pair, once returned
    spc,            \* "loop" | "returned" | "off"
    \* get_ai_insights
    reply,          \* what requests.post / r.json() produce
    ai_data,        \* the returned mapping
    apc,            \* "call" | "returned" | "off"
    \* process_csv
    columns,        \* df.columns, in order
    rows,           \* the rows of df, in table order: column name -> cell
    website_column, \* the argument website_column
    batch_size,     \* the argument batch_size
    to_process,     \* the copy of the selected rows made at line 103
    pos,            \* the position of the loop of line 105 in to_process
    site,           \* the local site of the current row
    request,        \* the arguments of the current row's get_ai_insights call
    pc,             \* "idle" | "loop" | "scrape" | "merge" | "status" | "sleep" | "off"
    calls,          \* the number of calls of process_csv so far
    fetched,        \* the rows scrape_site was called for in this call, in order
    requested,      \* the rows get_ai_insights was called for in this call, in order
    sleeps,         \* the number of time.sleep(30) taken in this call
    \* history of process_csv
    at_entry,       \* df as it was when the running call was entered
    visited,        \* the rows the loop of line 105 has come to in this call, in order
    steps,          \* what was done for the current row so far, in order
    slept,          \* the time units slept in this call
    posts,          \* the requests.post calls made in this call
    results         \* per row, the mapping merged into it (empty if none)

scrapeVars == <<url, attempts, tried, resps, ret, spc>>
aiVars == <<reply, ai_data, apc>>
batchVars == <<columns, rows, website_column, batch_size, to_process, pos, site,
               request, pc, calls, fetched, requested, sleeps>>
histVars == <<at_entry, visited, steps, slept, posts, results>>
vars == <<url, attempts, tried, resps, ret, spc, reply, ai_data, apc,
          columns, rows, website_column, batch_size, to_process, pos, site,
          request, pc, calls, fetched, requested, sleeps,
          at_entry, visited, steps, slept, posts, results>>

\* -------------------------------------------------------------------------
\* Bounds
\* -------------------------------------------------------------------------
MaxIdLen == 2       \* tokens in an identifier given to scrape_site
MaxText == 5        \* tokens in the message text of a model reply
NRows == 2          \* rows of the uploaded table
MaxCalls == 3       \* successive calls of process_csv on its own output

\* -------------------------------------------------------------------------
\* Strings
\* -------------------------------------------------------------------------
SP == " "
IdTokens == {SP, "https://", "http://", "httpbin.", "www.", "site.com"}

RECURSIVE SeqsUpTo(_, _)
SeqsUpTo(S, n) ==
    IF n = 0 THEN {<<>>}
    ELSE LET shorter == SeqsUpTo(S, n - 1)
         IN  shorter \cup {Append(s, t) : s \in {q \in shorter : Len(q) = n - 1}, t \in S}

Identifiers == SeqsUpTo(IdTokens, MaxIdLen)

\* str.strip(): leading and trailing whitespace removed
RECURSIVE lstrip(_)
lstrip(s) == IF s # <<>> /\ Head(s) = SP THEN lstrip(Tail(s)) ELSE s

RECURSIVE rstrip(_)
rstrip(s) ==
    IF s # <<>> /\ s[Len(s)] = SP THEN rstrip(SubSeq(s, 1, Len(s) - 1)) ELSE s

strip(s) == rstrip(lstrip(s))

\* the tokens whose text begins with the four characters "http"
HttpInitial == {"https://", "http://", "httpbin."}

\* raw.startswith("http")
startswith_http(s) == s # <<>> /\ Head(s) \in HttpInitial

\* raw.replace("www.", ""): every occurrence is removed
replace_www(s) == SelectSeq(s, LAMBDA t : t # "www.")

\* -------------------------------------------------------------------------
\* HTTP responses and page text
\* -------------------------------------------------------------------------
MaxTextLen == 4000

SentinelText == "SCRAPE_ERROR: Unable to fetch site"
SENTINEL == [s |-> SentinelText, n |-> 34]
NoneUrl == <<"<None>">>

\* a response body: its markup, and the visible text an HTML parser finds in it
EmptyBody == [html |-> "", s |-> "", n |-> 0]
Page == [html |-> "<html><p>About us ...</p></html>", s |-> "About us ...", n |-> 5000]
SentinelPage == [html |-> SentinelText, s |-> SentinelText, n |-> 34]

RespException == [kind |-> "exception"]
Resp404 == [kind |-> "http", status_code |-> 404, text |-> Page]
Resp200Empty == [kind |-> "http", status_code |-> 200, text |-> EmptyBody]
Resp200Page == [kind |-> "http", status_code |-> 200, text |-> Page]
Resp200Sentinel == [kind |-> "http", status_code |-> 200, text |-> SentinelPage]

Responses == {RespException, Resp404, Resp200Empty, Resp200Page, Resp200Sentinel}

None == [html |-> "<None>"]

\* try_fetch without the test of the status code
try_fetch_any_status(r) == IF r.kind = "exception" THEN None ELSE r.text

\* try_fetch(url), given what requests.get does: r.text on status 200, else None
try_fetch(r) ==
    IF r.kind = "exception" THEN None
    ELSE IF r.status_code = 200 THEN r.text
    ELSE None

\* `if html:`: neither None nor the empty string
truthy_html(html) == html # None /\ html.html # ""

\* soup.get_text(" ", strip=True)[:4000]
extract_text(html) ==
    [s |-> html.s, n |-> IF html.n > MaxTextLen THEN MaxTextLen ELSE html.n]

\* candidates without the test for a scheme
candidates_bare(u) ==
    LET base == replace_www(strip(u))
    IN  << <<"https://">> \o base,
           <<"http://">> \o base,
           <<"https://", "www.">> \o base,
           <<"http://", "www.">> \o base >>

\* lines 36-41: the candidate list
candidates(u) ==
    LET raw == strip(u)
    IN  IF startswith_http(raw) THEN <<raw>>
        ELSE LET base == replace_www(raw)
             IN  << <<"https://">> \o base,
                    <<"http://">> \o base,
                    <<"https://", "www.">> \o base,
                    <<"http://", "www.">> \o base >>

\* scrape_site is entered with argument u
scrape_enter(u) ==
    /\ url' = u
    /\ attempts' = candidates(u)
    /\ tried' = <<>>
    /\ resps' = <<>>
    /\ ret' = [content |-> SENTINEL, url |-> NoneUrl]
    /\ spc' = "loop"

\* one turn of the loop of lines 43-48, with r what requests.get does
scrape_try(r) ==
    /\ spc = "loop"
    /\ Len(tried) < Len(attempts)
    /\ LET link == attempts[Len(tried) + 1]
           html == try_fetch(r)
       IN  /\ tried' = Append(tried, link)
           /\ resps' = Append(resps, r)
           /\ IF truthy_html(html)
              THEN /\ ret' = [content |-> extract_text(html), url |-> link]
                   /\ spc' = "returned"
              ELSE UNCHANGED <<ret, spc>>
    /\ UNCHANGED <<url, attempts>>

\* line 49: the list is exhausted
scrape_exhausted ==
    /\ spc = "loop"
    /\ Len(tried) = Len(attempts)
    /\ ret' = [content |-> SENTINEL, url |-> NoneUrl]
    /\ spc' = "returned"
    /\ UNCHANGED <<url, attempts, tried, resps>>

\* -------------------------------------------------------------------------
\* Python values (JSON values, DataFrame cells)
\* -------------------------------------------------------------------------
Str(s) == [t |-> "str", s |-> s]
List(items) == [t |-> "list", items |-> items]
PyInt(n) == [t |-> "int", v |-> n]
Dict(name) == [t |-> "dict", name |-> name]
PyNone == [t |-> "None"]
NaN == [t |-> "NaN"]

\* a dict is the sequence of its items in insertion order, keys unique
Item(k, v) == [k |-> k, v |-> v]
Keys(d) == {d[i].k : i \in DOMAIN d}
Get(d, k) == LET i == CHOOSE j \in DOMAIN d : d[j].k = k IN d[i].v

\* d[k] = v
dict_set(d, k, v) ==
    IF k \in Keys(d)
    THEN [i \in DOMAIN d |-> IF d[i].k = k THEN Item(k, v) ELSE d[i]]
    ELSE Append(d, Item(k, v))

\* -------------------------------------------------------------------------
\* The model's reply and its message text
\* -------------------------------------------------------------------------
LB == [tok |-> "{"]
RB == [tok |-> "}"]
PAD == [tok |-> "pad"]      \* text without braces that is no JSON ("sure, here you go:")
Member(k, v) == [tok |-> "member", k |-> k, v |-> v]   \* "k": v with its separator

Members ==
    { Member("company_name", Str(<<>>)),
      Member("industry", Str(<<"finance">>)),
      Member("industry", PyNone),
      Member("main_products", List(<<>>)),
      Member("employees", PyInt(0)) }

TextTokens == {LB, RB, PAD} \cup Members

\* raw.find("{"), raw.rfind("}"): 0-based, -1 when absent
find(raw, c) ==
    IF \E i \in DOMAIN raw : raw[i].tok = c
    THEN (CHOOSE i \in DOMAIN raw :
             raw[i].tok = c /\ \A j \in 1..(i - 1) : raw[j].tok # c) - 1
    ELSE -1

rfind(raw, c) ==
    IF \E i \in DOMAIN raw : raw[i].tok = c
    THEN (CHOOSE i \in DOMAIN raw :
             raw[i].tok = c /\ \A j \in (i + 1)..Len(raw) : raw[j].tok # c) - 1
    ELSE -1

\* raw[start:end] for 0 <= start, 0 <= end
slice(raw, start, end) ==
    LET e == IF end > Len(raw) THEN Len(raw) ELSE end
    IN  IF e <= start THEN <<>> ELSE SubSeq(raw, start + 1, e)

\* json.loads accepts the text: an object of members
json_valid(txt) ==
    /\ Len(txt) >= 2
    /\ txt[1] = LB
    /\ txt[Len(txt)] = RB
    /\ \A i \in 2..(Len(txt) - 1) : txt[i].tok = "member"

\* the dict json.loads builds: a repeated key keeps its place and takes the last value
RECURSIVE json_members(_)
json_members(ms) ==
    IF ms = <<>> THEN <<>>
    ELSE LET m == ms[Len(ms)]
         IN  dict_set(json_members(SubSeq(ms, 1, Len(ms) - 1)), m.k, m.v)

json_loads(txt) == json_members(SubSeq(txt, 2, Len(txt) - 1))

\* the filter as a test of truthiness: `if v`
not_empty_truthy(v) == v # Str(<<>>) /\ v # List(<<>>) /\ v # PyNone /\ v # PyInt(0)

\* line 91: v not in ("", [], None)
not_empty(v) == v # Str(<<>>) /\ v # List(<<>>) /\ v # PyNone

cleaned(data) == SelectSeq(data, LAMBDA it : not_empty(it.v))

ErrorDict(payload) == <<Item("error", payload)>>
InvalidAIJson == Str(<<"Invalid AI JSON">>)
ExcText(name) == Str(<<"str(e)", name>>)

\* the extraction with the last brace left out of the slice
parse_insights_short(raw) ==
    LET start == find(raw, "{")
        end == rfind(raw, "}")
    IN  IF start = -1 \/ end = -1 THEN ErrorDict(InvalidAIJson)
        ELSE LET txt == slice(raw, start, end)
             IN  IF json_valid(txt) THEN cleaned(json_loads(txt))
                 ELSE ErrorDict(ExcText("JSONDecodeError"))

\* lines 83-92, given the message text raw
parse_insights(raw) ==
    LET start == find(raw, "{")
        end == rfind(raw, "}") + 1
    IN  IF start = -1 \/ end = -1 THEN ErrorDict(InvalidAIJson)
        ELSE LET txt == slice(raw, start, end)
             IN  IF json_valid(txt) THEN cleaned(json_loads(txt))
                 ELSE ErrorDict(ExcText("JSONDecodeError"))

\* what the POST produces
ReplyTransport == [kind |-> "transport", raw |-> <<>>]    \* requests.post raises
ReplyNotJson == [kind |-> "notjson", raw |-> <<>>]        \* r.json() raises
ReplyNoChoices == [kind |-> "nochoices", raw |-> <<>>]    \* a JSON object without "choices"
ReplyBadChoices == [kind |-> "badchoices", raw |-> <<>>]  \* "choices" of another shape
ReplyText(raw) == [kind |-> "ok", raw |-> raw]

\* get_ai_insights(url, scraped_text), lines 76-94, given what the POST produces
get_ai_insights(u, text, r) ==
    CASE r.kind = "transport" -> ErrorDict(ExcText("RequestException"))
      [] r.kind = "notjson" -> ErrorDict(ExcText("JSONDecodeError"))
      [] r.kind = "nochoices" -> ErrorDict(Dict("resp"))
      [] r.kind = "badchoices" -> ErrorDict(ExcText("LookupError"))
      [] r.kind = "ok" -> parse_insights(r.raw)


\* -------------------------------------------------------------------------
\* The table (a DataFrame)
\* -------------------------------------------------------------------------
DONE == Str(<<"done">>)
SKIPPED == Str(<<"skipped">>)
EMPTY == Str(<<>>)

Range(q) == {q[i] : i \in DOMAIN q}

\* str(x) of a cell
py_str(cell) ==
    CASE cell.t = "str" -> cell.s
      [] cell.t = "NaN" -> <<"nan">>
      [] cell.t = "None" -> <<"None">>
      [] cell.t = "list" -> <<"[">> \o cell.items \o <<"]">>
      [] cell.t = "int" -> <<"0">>
      [] cell.t = "dict" -> <<"{", cell.name, "}">>

\* df[k] = v: the whole column k is v
set_column(rws, k, v) ==
    [i \in DOMAIN rws |->
        [c \in (DOMAIN rws[i]) \cup {k} |-> IF c = k THEN v ELSE rws[i][c]]]

\* the assignment to the whole column instead of the one cell
set_cell_all_rows(rws, idx, k, v) == set_column(rws, k, v)

\* df.loc[idx, k] = v for a column k of df
set_cell(rws, idx, k, v) == [rws EXCEPT ![idx] = [@ EXCEPT ![k] = v]]

\* row.get(k, default)
row_get(row, k, default) == IF k \in DOMAIN row THEN row[k] ELSE default

\* the selection without the filter on status
not_done_unfiltered(rws) == [i \in 1..Len(rws) |-> i]

\* df[df['status'] != 'done'].head(batch_size): the selected row indices
not_done(rws) ==
    SelectSeq([i \in 1..Len(rws) |-> i], LAMBDA i : rws[i]["status"] # DONE)

\* head taking one row too many
head_plus_one(q, n) == SubSeq(q, 1, IF n + 1 < Len(q) THEN n + 1 ELSE Len(q))

head(q, n) == SubSeq(q, 1, IF n < Len(q) THEN n ELSE Len(q))

select_rows(rws, n) == head(not_done(rws), n)

\* the merge that leaves an "error" item out
RECURSIVE merge_items_no_error(_, _, _)
merge_items_no_error(tbl, idx, items) ==
    IF items = <<>> THEN tbl
    ELSE LET it == Head(items)
             t1 == IF it.k \notin Range(tbl.columns)
                   THEN [columns |-> Append(tbl.columns, it.k),
                         rows |-> set_column(tbl.rows, it.k, PyNone)]
                   ELSE tbl
             t2 == [t1 EXCEPT !.rows = set_cell(t1.rows, idx, it.k, it.v)]
         IN  IF it.k = "error" THEN merge_items_no_error(tbl, idx, Tail(items))
             ELSE merge_items_no_error(t2, idx, Tail(items))

\* the merge into the columns the table already has, adding none
RECURSIVE merge_items_known_columns(_, _, _)
merge_items_known_columns(tbl, idx, items) ==
    IF items = <<>> THEN tbl
    ELSE LET it == Head(items)
             t2 == IF it.k \in Range(tbl.columns)
                   THEN [tbl EXCEPT !.rows = set_cell(tbl.rows, idx, it.k, it.v)]
                   ELSE tbl
         IN  merge_items_known_columns(t2, idx, Tail(items))

\* lines 119-122: the items of ai_data merged into row idx
RECURSIVE merge_items(_, _, _)
merge_items(tbl, idx, items) ==
    IF items = <<>> THEN tbl
    ELSE LET it == Head(items)
             t1 == IF it.k \notin Range(tbl.columns)
                   THEN [columns |-> Append(tbl.columns, it.k),
                         rows |-> set_column(tbl.rows, it.k, PyNone)]
                   ELSE tbl
             t2 == [t1 EXCEPT !.rows = set_cell(t1.rows, idx, it.k, it.v)]
         IN  merge_items(t2, idx, Tail(items))

\* -------------------------------------------------------------------------
\* process_csv
\* -------------------------------------------------------------------------
NoRequest == [url |-> NoneUrl, content |-> SENTINEL]
NoEntry == [columns |-> <<>>, rows |-> <<>>]
SLEEP_SECONDS == 30

\* the request sent again after a transport failure
post_count_retry(n, r) == IF r.kind = "transport" THEN n + 2 ELSE n + 1

\* one requests.post per call of get_ai_insights, whatever it produces (line 77)
post_count(n, r) == n + 1
NoReply == [kind |-> "off", raw |-> <<>>]
NoReturn == [content |-> SENTINEL, url |-> NoneUrl]

scrape_off ==
    /\ url' = <<>>
    /\ attempts' = <<>>
    /\ tried' = <<>>
    /\ resps' = <<>>
    /\ ret' = NoReturn
    /\ spc' = "off"

ai_off ==
    /\ reply' = NoReply
    /\ ai_data' = <<>>
    /\ apc' = "off"

\* the requests of one batch: a failure or a page per fetch, and these replies
BatchResponses == {RespException, Resp200Page}

BatchReplies ==
    { ReplyTransport,
      ReplyNoChoices,
      ReplyText(<<PAD, LB, Member("industry", Str(<<"finance">>)),
                  Member("main_products", List(<<>>)), RB>>),
      ReplyText(<<LB, Member("company_name", Str(<<"Acme Inc">>)), RB, PAD>>) }

\* lines 100-103: the call, up to the selection of the rows
Call ==
    /\ pc = "idle"
    /\ calls < MaxCalls
    /\ LET cols1 == IF "status" \notin Range(columns)
                    THEN Append(columns, "status") ELSE columns
           rows1 == IF "status" \notin Range(columns)
                    THEN set_column(rows, "status", EMPTY) ELSE rows
           sel == select_rows(rows1, batch_size)
       IN  /\ columns' = cols1
           /\ rows' = rows1
           /\ to_process' = [i \in DOMAIN sel |-> [idx |-> sel[i], row |-> rows1[sel[i]]]]
    /\ pos' = 1
    /\ pc' = "loop"
    /\ calls' = calls + 1
    /\ fetched' = <<>>
    /\ requested' = <<>>
    /\ sleeps' = 0
    /\ at_entry' = [columns |-> columns, rows |-> rows]
    /\ visited' = <<>>
    /\ steps' = <<>>
    /\ slept' = 0
    /\ posts' = 0
    /\ UNCHANGED results
    /\ UNCHANGED <<site, request, website_column, batch_size>>
    /\ UNCHANGED scrapeVars
    /\ UNCHANGED aiVars

\* line 106: the identifier of the row the loop is at
site_of(entry) == strip(py_str(row_get(entry.row, website_column, EMPTY)))

\* lines 105-109: a row with a blank identifier
RowSkip ==
    /\ pc = "loop"
    /\ pos <= Len(to_process)
    /\ site_of(to_process[pos]) = <<>>
    /\ rows' = set_cell(rows, to_process[pos].idx, "status", SKIPPED)
    /\ pos' = pos + 1
    /\ visited' = Append(visited, to_process[pos].idx)
    /\ UNCHANGED <<at_entry, steps, slept, posts, results>>
    /\ UNCHANGED <<columns, website_column, batch_size, to_process, site, request,
                   pc, calls, fetched, requested, sleeps>>
    /\ UNCHANGED scrapeVars
    /\ UNCHANGED aiVars

\* lines 105-112: a row with an identifier, up to the call of scrape_site
RowBegin ==
    /\ pc = "loop"
    /\ pos <= Len(to_process)
    /\ site_of(to_process[pos]) # <<>>
    /\ site' = site_of(to_process[pos])
    /\ scrape_enter(site_of(to_process[pos]))
    /\ fetched' = Append(fetched, to_process[pos].idx)
    /\ pc' = "scrape"
    /\ visited' = Append(visited, to_process[pos].idx)
    /\ UNCHANGED <<at_entry, steps, slept, posts, results>>
    /\ UNCHANGED <<columns, rows, website_column, batch_size, to_process, pos,
                   request, calls, requested, sleeps>>
    /\ UNCHANGED aiVars

\* lines 43-48 within the call: one try_fetch
Fetch ==
    /\ pc = "scrape"
    /\ \E r \in BatchResponses : scrape_try(r)
    /\ steps' = Append(steps, "fetch")
    /\ UNCHANGED <<at_entry, visited, slept, posts, results>>
    /\ UNCHANGED batchVars
    /\ UNCHANGED aiVars

\* line 49 within the call
FetchExhausted ==
    /\ pc = "scrape"
    /\ scrape_exhausted
    /\ UNCHANGED histVars
    /\ UNCHANGED batchVars
    /\ UNCHANGED aiVars

\* the request made with the identifier of the row, resolved or not
url_or_site(final_url, s) == s

\* `final_url or site`
url_or(final_url, s) == IF final_url = NoneUrl \/ final_url = <<>> THEN s ELSE final_url

\* lines 112-117: scrape_site has returned; the model request
Insights ==
    /\ pc = "scrape"
    /\ spc = "returned"
    /\ \E r \in BatchReplies :
          /\ reply' = r
          /\ request' = [url |-> url_or(ret.url, site), content |-> ret.content]
          /\ ai_data' = get_ai_insights(url_or(ret.url, site), ret.content, r)
          /\ posts' = post_count(posts, r)
    /\ steps' = Append(steps, "request")
    /\ UNCHANGED <<at_entry, visited, slept, results>>
    /\ apc' = "returned"
    /\ requested' = Append(requested, to_process[pos].idx)
    /\ pc' = "merge"
    /\ UNCHANGED <<columns, rows, website_column, batch_size, to_process, pos,
                   site, calls, fetched, sleeps>>
    /\ UNCHANGED scrapeVars

\* lines 119-122
Merge ==
    /\ pc = "merge"
    /\ LET tbl == merge_items([columns |-> columns, rows |-> rows],
                              to_process[pos].idx, ai_data)
       IN  /\ columns' = tbl.columns
           /\ rows' = tbl.rows
    /\ pc' = "status"
    /\ steps' = Append(steps, "merge")
    /\ results' = [results EXCEPT ![to_process[pos].idx] = ai_data]
    /\ UNCHANGED <<at_entry, visited, slept, posts>>
    /\ UNCHANGED <<website_column, batch_size, to_process, pos, site, request,
                   calls, fetched, requested, sleeps>>
    /\ UNCHANGED scrapeVars
    /\ UNCHANGED aiVars

\* line 124
SetDone ==
    /\ pc = "status"
    /\ rows' = set_cell(rows, to_process[pos].idx, "status", DONE)
    /\ pc' = "sleep"
    /\ steps' = Append(steps, "done")
    /\ UNCHANGED <<at_entry, visited, slept, posts, results>>
    /\ UNCHANGED <<columns, website_column, batch_size, to_process, pos, site,
                   request, calls, fetched, requested, sleeps>>
    /\ UNCHANGED scrapeVars
    /\ UNCHANGED aiVars

\* a delay between rows only, none after the last row of the batch
Sleep_between_rows ==
    /\ pc = "sleep"
    /\ sleeps' = IF pos < Len(to_process) THEN sleeps + 1 ELSE sleeps
    /\ slept' = IF pos < Len(to_process) THEN slept + SLEEP_SECONDS ELSE slept
    /\ steps' = <<>>
    /\ UNCHANGED <<at_entry, visited, posts, results>>
    /\ pos' = pos + 1
    /\ pc' = "loop"
    /\ site' = <<>>
    /\ request' = NoRequest
    /\ scrape_off
    /\ ai_off
    /\ UNCHANGED <<columns, rows, website_column, batch_size, to_process, calls,
                   fetched, requested>>

\* line 125, and the loop moves on; the locals of the row are dead from here
Sleep ==
    /\ pc = "sleep"
    /\ sleeps' = sleeps + 1
    /\ slept' = slept + SLEEP_SECONDS
    /\ steps' = <<>>
    /\ UNCHANGED <<at_entry, visited, posts, results>>
    /\ pos' = pos + 1
    /\ pc' = "loop"
    /\ site' = <<>>
    /\ request' = NoRequest
    /\ scrape_off
    /\ ai_off
    /\ UNCHANGED <<columns, rows, website_column, batch_size, to_process, calls,
                   fetched, requested>>

\* line 127
Return ==
    /\ pc = "loop"
    /\ pos > Len(to_process)
    /\ pc' = "idle"
    /\ at_entry' = NoEntry
    /\ UNCHANGED <<visited, steps, slept, posts, results>>
    /\ UNCHANGED <<columns, rows, website_column, batch_size, to_process, pos,
                   site, request, calls, fetched, requested, sleeps>>
    /\ UNCHANGED scrapeVars
    /\ UNCHANGED aiVars

\* -------------------------------------------------------------------------
\* The batch runner: an uploaded table, then process_csv called again and again
\* on its own output
\* -------------------------------------------------------------------------
SiteCells == {NaN, EMPTY, Str(<<SP>>), Str(<<"www.", "site.com">>)}
StatusCells == {EMPTY, DONE, SKIPPED}

TableRows(cols) ==
    [1..NRows -> IF "status" \in Range(cols)
                 THEN [website : SiteCells, company_name : {Str(<<"Acme">>)},
                       status : StatusCells]
                 ELSE [website : SiteCells, company_name : {Str(<<"Acme">>)}]]

Init ==
    /\ columns \in {<<"website", "company_name">>, <<"website", "company_name", "status">>}
    /\ rows \in TableRows(columns)
    /\ website_column \in {"website", "url"}
    /\ batch_size \in 1..NRows
    /\ to_process = <<>>
    /\ pos = 1
    /\ site = <<>>
    /\ request = NoRequest
    /\ pc = "idle"
    /\ calls = 0
    /\ fetched = <<>>
    /\ requested = <<>>
    /\ sleeps = 0
    /\ at_entry = NoEntry
    /\ visited = <<>>
    /\ steps = <<>>
    /\ slept = 0
    /\ posts = 0
    /\ results = [i \in 1..NRows |-> <<>>]
    /\ url = <<>>
    /\ attempts = <<>>
    /\ tried = <<>>
    /\ resps = <<>>
    /\ ret = NoReturn
    /\ spc = "off"
    /\ reply = NoReply
    /\ ai_data = <<>>
    /\ apc = "off"

Next ==
    \/ Call
    \/ RowSkip
    \/ RowBegin
    \/ Fetch
    \/ FetchExhausted
    \/ Insights
    \/ Merge
    \/ SetDone
    \/ Sleep
    \/ Return

Spec == Init /\ [][Next]_vars

\* -------------------------------------------------------------------------
\* process_csv called on its output without end: past MaxCalls calls the
\* counter stands still and the calls go on; a call that can start does start,
\* and a call that has started runs to its return
\* -------------------------------------------------------------------------
CallAgain ==
    /\ pc = "idle"
    /\ calls = MaxCalls
    /\ LET cols1 == IF "status" \notin Range(columns)
                    THEN Append(columns, "status") ELSE columns
           rows1 == IF "status" \notin Range(columns)
                    THEN set_column(rows, "status", EMPTY) ELSE rows
           sel == select_rows(rows1, batch_size)
       IN  /\ columns' = cols1
           /\ rows' = rows1
           /\ to_process' = [i \in DOMAIN sel |-> [idx |-> sel[i], row |-> rows1[sel[i]]]]
    /\ pos' = 1
    /\ pc' = "loop"
    /\ calls' = calls
    /\ fetched' = <<>>
    /\ requested' = <<>>
    /\ sleeps' = 0
    /\ at_entry' = [columns |-> columns, rows |-> rows]
    /\ visited' = <<>>
    /\ steps' = <<>>
    /\ slept' = 0
    /\ posts' = 0
    /\ UNCHANGED results
    /\ UNCHANGED <<site, request, website_column, batch_size>>
    /\ UNCHANGED scrapeVars
    /\ UNCHANGED aiVars

NextLive ==
    \/ Next
    \/ CallAgain

SpecLive == Init /\ [][NextLive]_vars /\ WF_vars(NextLive)

\* -------------------------------------------------------------------------
\* scrape_site on its own: every identifier, every outcome of every request
\* -------------------------------------------------------------------------
batch_off ==
    /\ columns = <<>>
    /\ rows = <<>>
    /\ website_column = ""
    /\ batch_size = 0
    /\ to_process = <<>>
    /\ pos = 1
    /\ site = <<>>
    /\ request = NoRequest
    /\ pc = "off"
    /\ calls = 0
    /\ fetched = <<>>
    /\ requested = <<>>
    /\ sleeps = 0
    /\ at_entry = NoEntry
    /\ visited = <<>>
    /\ steps = <<>>
    /\ slept = 0
    /\ posts = 0
    /\ results = <<>>

InitScrape ==
    /\ url \in Identifiers
    /\ attempts = candidates(url)
    /\ tried = <<>>
    /\ resps = <<>>
    /\ ret = NoReturn
    /\ spc = "loop"
    /\ reply = NoReply
    /\ ai_data = <<>>
    /\ apc = "off"
    /\ batch_off

ScrapeTry ==
    /\ \E r \in Responses : scrape_try(r)
    /\ UNCHANGED aiVars
    /\ UNCHANGED batchVars
    /\ UNCHANGED histVars

ScrapeExhausted ==
    /\ scrape_exhausted
    /\ UNCHANGED aiVars
    /\ UNCHANGED batchVars
    /\ UNCHANGED histVars

NextScrape == ScrapeTry \/ ScrapeExhausted

SpecScrape == InitScrape /\ [][NextScrape]_vars

\* -------------------------------------------------------------------------
\* get_ai_insights on its own: every reply, every message text up to MaxText
\* -------------------------------------------------------------------------
Texts == SeqsUpTo(TextTokens, MaxText)

AIReplies ==
    {ReplyTransport, ReplyNotJson, ReplyNoChoices, ReplyBadChoices}
        \cup {ReplyText(raw) : raw \in Texts}

InitAI ==
    /\ reply \in AIReplies
    /\ ai_data = <<>>
    /\ apc = "call"
    /\ url = <<>>
    /\ attempts = <<>>
    /\ tried = <<>>
    /\ resps = <<>>
    /\ ret = NoReturn
    /\ spc = "off"
    /\ batch_off

AIReturn ==
    /\ apc = "call"
    /\ ai_data' = get_ai_insights(url, ret.content, reply)
    /\ apc' = "returned"
    /\ posts' = post_count(posts, reply)
    /\ UNCHANGED <<at_entry, visited, steps, slept, results>>
    /\ UNCHANGED <<reply>>
    /\ UNCHANGED scrapeVars
    /\ UNCHANGED batchVars

NextAI == AIReturn

SpecAI == InitAI /\ [][NextAI]_vars


\* =========================================================================
\* Properties
\* =========================================================================
StatusOf(i) == IF "status" \in DOMAIN rows[i] THEN rows[i]["status"] ELSE [t |-> "absent"]
Settled(i) == StatusOf(i) \in {DONE, SKIPPED}
InCall == pc \in {"loop", "scrape", "merge", "status", "sleep"}
Current == to_process[pos].idx

\* C1: with batch_size >= the number of rows, once process_csv has returned
\* twice every row has status 'done' or 'skipped', and from the third call on
\* scrape_site, try_fetch and get_ai_insights are not called at all.
C1_SettledAfterTwoRuns ==
    batch_size >= Len(rows) =>
        /\ (calls >= 2 /\ pc = "idle") => \A i \in DOMAIN rows : Settled(i)
        /\ calls >= 3 =>
              /\ fetched = <<>>
              /\ requested = <<>>
              /\ tried = <<>>
              /\ pc \notin {"scrape", "merge", "status", "sleep"}

C1_Witness ==
    /\ calls = 3
    /\ pc = "idle"
    /\ batch_size >= Len(rows)
    /\ \E i \in DOMAIN rows : StatusOf(i) = DONE
    /\ \E i \in DOMAIN rows : StatusOf(i) = SKIPPED

\* C2: a selected row whose website cell is blank or absent (empty string,
\* whitespace only, a missing cell of the loaded table, or no such column) is
\* never fetched nor sent to the model, and has status 'skipped' once visited.
BlankCell(c) == c = NaN \/ (c.t = "str" /\ strip(c.s) = <<>>)

C2_BlankRowsSkipped ==
    InCall =>
        \A p \in DOMAIN to_process :
            BlankCell(row_get(to_process[p].row, website_column, EMPTY)) =>
                /\ to_process[p].idx \notin Range(fetched)
                /\ to_process[p].idx \notin Range(requested)
                /\ p < pos => StatusOf(to_process[p].idx) = SKIPPED

\* C3: a row with status 'done' is never the row being fetched or sent to the
\* model, and no step changes a cell it has; a step only adds null cells of
\* new columns to it.
C3_DoneRowsUntouched ==
    [][ \A i \in DOMAIN rows :
            StatusOf(i) = DONE =>
                /\ \A c \in DOMAIN rows[i] : c \in DOMAIN rows'[i] /\ rows'[i][c] = rows[i][c]
                /\ \A c \in (DOMAIN rows'[i]) \ (DOMAIN rows[i]) : rows'[i][c] = PyNone
                /\ Len(fetched') > Len(fetched) => fetched'[Len(fetched')] # i
                /\ Len(requested') > Len(requested) => requested'[Len(requested')] # i
                /\ (tried' # tried /\ tried' # <<>>) => to_process'[pos'].idx # i
      ]_vars

C3_Witness ==
    /\ pc = "status"
    /\ \E i \in DOMAIN rows :
          /\ i # Current
          /\ StatusOf(i) = DONE
          /\ i \notin Range(fetched)
          /\ "industry" \in DOMAIN rows[i]
          /\ rows[i]["industry"] = PyNone
          /\ rows[Current]["industry"] = Str(<<"finance">>)

\* C4: an identifier without a scheme is tried as https://<host>,
\* http://<host>, https://www.<host>, http://www.<host>, in that order, <host>
\* being the identifier less a leading "www."; the first success ends the
\* attempts and is the resolved URL.
HasScheme(raw) == raw # <<>> /\ Head(raw) \in {"https://", "http://"}
Host(raw) == IF raw # <<>> /\ Head(raw) = "www." THEN Tail(raw) ELSE raw
Documented(raw) ==
    << <<"https://">> \o Host(raw),
       <<"http://">> \o Host(raw),
       <<"https://", "www.">> \o Host(raw),
       <<"http://", "www.">> \o Host(raw) >>

C4_FourCandidatesInOrder ==
    ~HasScheme(strip(url)) =>
        /\ Len(tried) <= 4
        /\ \A i \in DOMAIN tried : tried[i] = Documented(strip(url))[i]
        /\ spc = "returned" =>
              IF ret.url = NoneUrl THEN Len(tried) = 4
              ELSE ret.url = tried[Len(tried)]

\* C5: an identifier with a scheme is tried once, as it is less the
\* surrounding whitespace, whether that attempt succeeds or fails.
C5_SchemeTriedOnce ==
    HasScheme(strip(url)) =>
        /\ \A i \in DOMAIN tried : tried[i] = strip(url)
        /\ Len(tried) <= 1
        /\ spc = "returned" => tried = <<strip(url)>>

C5_Witness ==
    /\ HasScheme(strip(url))
    /\ url # strip(url)
    /\ spc = "returned"
    /\ ret.url = NoneUrl
    /\ tried = <<strip(url)>>

\* C6 as stated: scrape_site returns the sentinel with no URL exactly when
\* every candidate attempt ended in an exception (a timeout is one) or a
\* status other than 200.
ListedFailure(r) == r.kind = "exception" \/ r.status_code # 200
IsSentinel(x) == x.content = SENTINEL /\ x.url = NoneUrl

C6_SentinelIffListedFailures ==
    spc = "returned" =>
        (IsSentinel(ret) <=>
            (Len(resps) = Len(attempts) /\ \A i \in DOMAIN resps : ListedFailure(resps[i])))

\* C6 amended: scrape_site returns the sentinel with no URL exactly when every
\* candidate attempt ended in an exception, a status other than 200 or a 200
\* reply with an empty body; otherwise it returns a URL.
NoBody(r) == ListedFailure(r) \/ r.text.html = ""

C6_SentinelIffNoBody ==
    spc = "returned" =>
        /\ IsSentinel(ret) <=>
              (Len(resps) = Len(attempts) /\ \A i \in DOMAIN resps : NoBody(resps[i]))
        /\ ~IsSentinel(ret) => ret.url # NoneUrl

C6_Witness ==
    /\ spc = "returned"
    /\ IsSentinel(ret)
    /\ Len(resps) = 4
    /\ \E i \in DOMAIN resps : resps[i] = Resp200Empty
    /\ \E i \in DOMAIN resps : resps[i] = RespException
    /\ \E i \in DOMAIN resps : resps[i] = Resp404

\* C7: whatever the fetches and the model request do, the call goes on: it is
\* never stuck inside the loop, every selected row with a non-blank identifier
\* has status 'done' when the call returns, and a failed model request is
\* merged into its row as the single column "error".
FailedReply(r) == r.kind \in {"transport", "notjson", "nochoices", "badchoices"}

HasBracePair(raw) ==
    \E i, j \in DOMAIN raw : i < j /\ raw[i] = LB /\ raw[j] = RB

C8_NoPairIsInvalid ==
    (apc = "returned" /\ reply.kind = "ok" /\ ~HasBracePair(reply.raw)) =>
        ai_data = <<[k |-> "error", v |-> Str(<<"Invalid AI JSON">>)]>>

\* C9: a message text that is a JSON object between paddings without braces
\* gives the mapping of that object less its empty fields, and no "error" key
\* the object does not have.
IsObject(txt) ==
    /\ Len(txt) >= 2
    /\ txt[1] = LB
    /\ txt[Len(txt)] = RB
    /\ \A i \in 2..(Len(txt) - 1) : txt[i].tok = "member"

ObjKeys(txt) == {txt[i].k : i \in 2..(Len(txt) - 1)}

\* the value of key k in the object: that of its last member
ObjValue(txt, k) ==
    LET last == CHOOSE i \in 2..(Len(txt) - 1) :
                    txt[i].k = k /\ \A j \in (i + 1)..(Len(txt) - 1) : txt[j].k # k
    IN  txt[last].v

IsEmptyValue(v) == v.t = "None" \/ (v.t = "str" /\ Len(v.s) = 0) \/ (v.t = "list" /\ Len(v.items) = 0)

C9_PaddedObjectParsed ==
    (apc = "returned" /\ reply.kind = "ok") =>
        \A a \in 0..Len(reply.raw), b \in 0..Len(reply.raw) :
            LET obj == SubSeq(reply.raw, a + 1, b)
            IN  (/\ a < b
                 /\ \A i \in 1..a : reply.raw[i] = PAD
                 /\ \A i \in (b + 1)..Len(reply.raw) : reply.raw[i] = PAD
                 /\ IsObject(obj)) =>
                    /\ Keys(ai_data) = {k \in ObjKeys(obj) : ~IsEmptyValue(ObjValue(obj, k))}
                    /\ \A k \in Keys(ai_data) : Get(ai_data, k) = ObjValue(obj, k)
                    /\ Len(ai_data) = Cardinality(Keys(ai_data))

C9_Witness ==
    /\ apc = "returned"
    /\ reply = ReplyText(<<PAD, LB, Member("industry", Str(<<"finance">>)), RB, PAD>>)
    /\ ai_data = <<[k |-> "industry", v |-> Str(<<"finance">>)]>>

\* C10: when the text from the first '{' through the last '}' is an object,
\* a key of the object is returned exactly if its value is not "", [] or null,
\* with that value, and no other key is returned.
FirstLB(raw) == CHOOSE i \in DOMAIN raw : raw[i] = LB /\ \A j \in 1..(i - 1) : raw[j] # LB
LastRB(raw) == CHOOSE i \in DOMAIN raw : raw[i] = RB /\ \A j \in (i + 1)..Len(raw) : raw[j] # RB

C10_OnlyEmptyFieldsDropped ==
    (/\ apc = "returned"
     /\ reply.kind = "ok"
     /\ HasBracePair(reply.raw)
     /\ IsObject(SubSeq(reply.raw, FirstLB(reply.raw), LastRB(reply.raw)))) =>
        LET obj == SubSeq(reply.raw, FirstLB(reply.raw), LastRB(reply.raw))
        IN  /\ \A k \in ObjKeys(obj) :
                  IF ObjValue(obj, k) \in {Str(<<>>), List(<<>>), PyNone}
                  THEN k \notin Keys(ai_data)
                  ELSE k \in Keys(ai_data) /\ Get(ai_data, k) = ObjValue(obj, k)
            /\ Keys(ai_data) \subseteq ObjKeys(obj)

C10_Witness ==
    /\ apc = "returned"
    /\ reply = ReplyText(<<LB, Member("company_name", Str(<<>>)),
                           Member("main_products", List(<<>>)),
                           Member("employees", PyInt(0)), RB>>)
    /\ ai_data = <<[k |-> "employees", v |-> PyInt(0)]>>

\* C11: once results with differing key sets are merged, every row has a cell
\* for every key of every row's result: the returned value where the row's own
\* result has the key, null where it has not.
C11_EveryKeyInEveryRow ==
    \A j \in DOMAIN results :
        \A k \in Keys(results[j]) :
            \A i \in DOMAIN rows :
                /\ k \in DOMAIN rows[i]
                /\ rows[i][k] = IF k \in Keys(results[i]) THEN Get(results[i], k) ELSE PyNone

\* C12: a call of get_ai_insights sends one request, no more; when the
\* transport fails or the reply has no "choices" it returns a mapping whose
\* only key is "error".
C12_OneRequestErrorOnFailure ==
    /\ apc = "call" => posts = 0
    /\ apc = "returned" =>
          /\ posts = 1
          /\ reply.kind \in {"transport", "nochoices"} =>
                (Len(ai_data) = 1 /\ ai_data[1].k = "error")

C12_Witness ==
    /\ apc = "returned"
    /\ reply = ReplyNoChoices
    /\ posts = 1
    /\ ai_data = <<[k |-> "error", v |-> Dict("resp")]>>

\* C13: a call comes to the first min(batch_size, n) of the n rows that were
\* not 'done' when it was entered, in table order, and to no other row.
NotDoneAtEntry ==
    {i \in DOMAIN at_entry.rows :
        "status" \notin DOMAIN at_entry.rows[i] \/ at_entry.rows[i]["status"] # DONE}

Before(S, i) == {j \in S : j < i}
Batch == {i \in NotDoneAtEntry : Cardinality(Before(NotDoneAtEntry, i)) < batch_size}
LoopOver == pc = "loop" /\ pos > Len(to_process)

C13_VisitsFirstNotDone ==
    InCall =>
        /\ \A p \in DOMAIN visited :
              /\ visited[p] \in Batch
              /\ Cardinality(Before(Batch, visited[p])) = p - 1
        /\ LoopOver => Len(visited) = Cardinality(Batch)

C13_Witness ==
    /\ LoopOver
    /\ batch_size < Cardinality(NotDoneAtEntry)
    /\ "status" \in DOMAIN at_entry.rows[1]
    /\ at_entry.rows[1]["status"] = SKIPPED
    /\ visited = <<1>>
    /\ rows[1]["status"] = DONE

\* C14: for a row with an identifier the steps are the fetches, then one model
\* request, then the merge, then status := 'done', then the delay; a row's
\* first fetch comes after the delays of all rows before it; the request is
\* made once, also after a failed fetch, with the resolved URL (the identifier
\* when there is none) and the fetched text (the sentinel when there is none).
IsPrefix(p, q) == Len(p) <= Len(q) /\ \A i \in DOMAIN p : p[i] = q[i]
Fetches(q) == Cardinality({i \in DOMAIN q : q[i] = "fetch"})
AfterFetches(q) == SubSeq(q, Fetches(q) + 1, Len(q))
InRow == pc \in {"scrape", "merge", "status", "sleep"}
Requested == pc \in {"merge", "status", "sleep"}

C14_StepsInOrder ==
    /\ InRow =>
          /\ \A i \in 1..Fetches(steps) : steps[i] = "fetch"
          /\ IsPrefix(AfterFetches(steps), <<"request", "merge", "done">>)
          /\ Fetches(steps) = Len(tried)
          /\ slept = SLEEP_SECONDS * (Len(fetched) - 1)
          /\ fetched[Len(fetched)] = Current
          /\ site = strip(py_str(row_get(rows[Current], website_column, EMPTY)))
    /\ pc = "loop" => (steps = <<>> /\ slept = SLEEP_SECONDS * Len(fetched))
    /\ Requested =>
          /\ Fetches(steps) >= 1
          /\ spc = "returned"
          /\ Cardinality({i \in DOMAIN requested : requested[i] = Current}) = 1
          /\ requested = fetched
          /\ IF ret.url = NoneUrl
             THEN /\ Len(tried) = Len(attempts)
                  /\ request = [url |-> site, content |-> SENTINEL]
             ELSE /\ ret.url = tried[Len(tried)]
                  /\ request.url = ret.url
                  /\ request.content.s = resps[Len(resps)].text.s
    /\ pc = "merge" => AfterFetches(steps) = <<"request">>
    /\ pc = "status" => AfterFetches(steps) = <<"request", "merge">>
    /\ pc = "sleep" =>
          (AfterFetches(steps) = <<"request", "merge", "done">> /\ StatusOf(Current) = DONE)

C14_Witness ==
    /\ pc = "sleep"
    /\ steps = <<"fetch", "fetch", "fetch", "fetch", "request", "merge", "done">>
    /\ ret.url = NoneUrl
    /\ request = [url |-> site, content |-> SENTINEL]
    /\ fetched = <<1, 2>>
    /\ slept = SLEEP_SECONDS

\* C15: the delays taken in a call are as many as the rows the call has set to
\* 'done', each of 30 units; while the delay of the row just set to 'done' is
\* pending the count is one behind, the last row included; a skipped row adds
\* no delay.
DoneInCall == {i \in Range(visited) : StatusOf(i) = DONE}
SkippedInCall == {i \in Range(visited) : StatusOf(i) = SKIPPED}
DelayPending == IF pc = "sleep" THEN 1 ELSE 0

C15_DelayPerDoneRow ==
    /\ sleeps = Cardinality(DoneInCall) - DelayPending
    /\ slept = 30 * sleeps
    /\ sleeps <= Len(visited) - Cardinality(SkippedInCall)
    /\ pc = "sleep" => (StatusOf(Current) = DONE /\ ~ENABLED Return)

C15_Witness ==
    /\ LoopOver
    /\ visited = <<1, 2>>
    /\ StatusOf(1) = SKIPPED
    /\ StatusOf(2) = DONE
    /\ sleeps = 1
    /\ slept = 30

\* C16: no step removes a column; during a call the table has every column it
\* had at entry and 'status', and when the loop is over it has a column for
\* every key of every model result of the call.
ColumnSet == Range(columns)
KeysOfCall == UNION {Keys(results[i]) : i \in Range(requested)}

C16_ColumnsOnlyGrow ==
    /\ [][ColumnSet \subseteq Range(columns')]_vars
    /\ [](InCall =>
            /\ Range(at_entry.columns) \subseteq ColumnSet
            /\ "status" \in ColumnSet
            /\ LoopOver => KeysOfCall \subseteq ColumnSet)

C16_Witness ==
    /\ LoopOver
    /\ "status" \notin Range(at_entry.columns)
    /\ requested = <<1, 2>>
    /\ Keys(results[1]) = {"error"}
    /\ Keys(results[2]) = {"industry"}
    /\ ColumnSet = Range(at_entry.columns) \cup {"status", "error", "industry"}

\* C17: during a call every cell of a column the table had at entry, 'status'
\* apart, holds what it held at entry, whatever keys the model results have.
OriginalCells(i) == DOMAIN at_entry.rows[i] \ {"status"}

C17_OriginalCellsPreserved ==
    InCall =>
        \A i \in DOMAIN at_entry.rows :
            \A c \in OriginalCells(i) : rows[i][c] = at_entry.rows[i][c]

\* C18: whatever the table and the batch size, when process_csv is called again
\* and again on its output, a call eventually returns a table in which every
\* row has status 'done' or 'skipped'.
AllSettled == pc = "idle" /\ calls > 0 /\ \A i \in DOMAIN rows : Settled(i)

C18_EventuallyAllSettled == <>AllSettled

=============================================================================
